---- MODULE Spec2Model ----
(***************************************************************************)
(* Model of the peer node of can-you-peer-me (src-tauri/src):              *)
(*   - lib.rs:  the shared AppContext behind a tokio Mutex, the `init` and *)
(*              `broadcast` commands, and the forwarding loop of           *)
(*              forward_to_app_layer;                                      *)
(*   - the serde_json encoding of the (timestamp, index) message;          *)
(*   - sync.rs: the two roles of DummyProtocol.                            *)
(***************************************************************************)
EXTENDS Integers, Sequences, FiniteSets, TLC

(***************************************************************************)
(* Bounds of the model.                                                    *)
(***************************************************************************)
\* Inputs of the environment over a run: init calls, broadcast calls, system
\* events, gossip events and closures of a frontend channel, together.
MaxInputs == 4
\* Capacity of the local-origin queue.  The code builds mpsc::channel(32);
\* the model keeps the queue bounded and scales the capacity down.
AppQueueCapacity == 1

\* Frames a remote peer writes to a sync session's stream.
MaxFrames == 3

\* Option::None of AppContext.channel; the consumers are 1, 2, ...
None == 0
\* Largest value of the u16 sample index.
U16Max == 65535

\* The frontend channels that register, in this order.
Consumers == 1..MaxInputs
\* The concurrent invocations of the broadcast command.
Publishers == {"p1", "p2"}
\* (timestamp, index) arguments of the broadcast command.
PubArgs == {<<1000, 7>>, <<0, 65535>>}

(***************************************************************************)
(* The codec: serde_json::to_vec / serde_json::from_slice on (u64, u16).   *)
(* A payload is the sequence of its characters.                            *)
(***************************************************************************)
DigitChars == <<"0", "1", "2", "3", "4", "5", "6", "7", "8", "9">>

DigitSet == {DigitChars[i] : i \in 1..10}

DigitValue(ch) == (CHOOSE i \in 1..10 : DigitChars[i] = ch) - 1

RECURSIVE NatToDigits(_)
\* Decimal rendering of an unsigned integer, most significant digit first.
NatToDigits(n) ==
    IF n < 10 THEN <<DigitChars[n + 1]>>
    ELSE NatToDigits(n \div 10) \o <<DigitChars[(n % 10) + 1]>>

RECURSIVE DigitsToNat(_)
DigitsToNat(ds) ==
    IF Len(ds) = 0 THEN 0
    ELSE 10 * DigitsToNat(SubSeq(ds, 1, Len(ds) - 1)) + DigitValue(ds[Len(ds)])

\* A JSON unsigned number token: digits only, no leading zero.
IsNumberToken(ds) ==
    /\ Len(ds) > 0
    /\ \A i \in 1..Len(ds) : ds[i] \in DigitSet
    /\ (Len(ds) > 1 => ds[1] # "0")

\* A buggy rendering that keeps only the low byte of the index.
EncodeLowByte(message) ==
    <<"[">> \o NatToDigits(message[1]) \o <<",">>
            \o NatToDigits(message[2] % 256) \o <<"]">>

\* serde_json::to_vec(&(timestamp, index)): the JSON array "[timestamp,index]".
Encode(message) ==
    <<"[">> \o NatToDigits(message[1]) \o <<",">>
            \o NatToDigits(message[2]) \o <<"]">>

DecodeError == [ok |-> FALSE, val |-> <<0, 0>>]

\* serde_json::from_slice::<(u64, u16)>: a two-element array of unsigned
\* numbers, the second within u16; anything else is an error.
Decode(bytes) ==
    LET n == Len(bytes)
        commas == {i \in 1..n : bytes[i] = ","}
    IN  IF n < 5 \/ bytes[1] # "[" \/ bytes[n] # "]" \/ Cardinality(commas) # 1
        THEN DecodeError
        ELSE LET c == CHOOSE i \in commas : TRUE
                 first == SubSeq(bytes, 2, c - 1)
                 second == SubSeq(bytes, c + 1, n - 1)
             IN  IF ~IsNumberToken(first) \/ ~IsNumberToken(second)
                 THEN DecodeError
                 ELSE IF DigitsToNat(second) > U16Max
                 THEN DecodeError
                 ELSE [ok |-> TRUE,
                       val |-> <<DigitsToNat(first), DigitsToNat(second)>>]

(***************************************************************************)
(* Inputs of the environment.                                              *)
(***************************************************************************)
\* Payloads that no peer running this codec produces.
MalformedPayloads == {<<"[", "1", ",", "6", "5", "5", "3", "6", "]">>}

\* FromNetwork events of the gossip overlay.
GossipMessages == {[kind |-> "GossipMessage", bytes |-> Encode(m)] : m \in PubArgs}
MalformedGossip == {[kind |-> "GossipMessage", bytes |-> b] : b \in MalformedPayloads}
SyncDerived == {[kind |-> "SyncMessage", bytes |-> <<>>]}
FromNetwork == GossipMessages \cup MalformedGossip \cup SyncDerived

\* p2panda_net::SystemEvent values the overlay emits: a variant and the fields
\* the variant carries.
SystemEvents ==
    {[kind |-> "GossipJoined", topic_id |-> "T1", peers |-> <<"P1", "P2">>],
     [kind |-> "SyncFailed", topic |-> "T1", peer |-> "P2"]}

\* Topics a sync session can be about.
Topics == {"T1", "T2"}

\* SyncMessage frames a peer can put on the stream; "Malformed" is a frame
\* the CBOR stream cannot decode into a SyncMessage.
TopicQuery(t) == [type |-> "TopicQuery", topic |-> t]
Done == [type |-> "Done", topic |-> "-"]
Malformed == [type |-> "Malformed", topic |-> "-"]
Frames == {TopicQuery(t) : t \in Topics} \cup {Done, Malformed}

\* Pairs the codec is run on.
CodecTimestamps == {0, 1, 9, 10, 1000, 65536, 999999999, 2147483647}
CodecIndexes == {0, 7, 9, 10, 255, 256, 65535}

VARIABLES
    channel,            \* AppContext.channel: None or the registered consumer
    lock,               \* tokio Mutex<AppContext>: the task holding it, or Free
    app_rx,             \* buffer of the (app_tx, app_rx) mpsc channel
    topic_rx,           \* inbound gossip events
    system_events_rx,   \* inbound system events
    topic_tx,           \* ToNetwork messages handed to the overlay
    closed,             \* consumers whose channel no longer accepts sends
    mux_pc,             \* forwarding loop: "select", "forward", "failed"
    held,               \* the event the loop took and has not yet handled
    pub_pc,             \* per broadcast invocation: "idle", "send_app", "send_net"
    pub_call,           \* the call each invocation is running
    calls,              \* history: one record per broadcast call
    app_sent,           \* history: every message sent on app_tx
    emitted,            \* history: events the overlay emitted, per source
    taken,              \* history: ids of the events the loop received
    delivered,          \* history: every ChannelEvent sent to a consumer
    failed_on,          \* history: id of the event the loop panicked on
    nreg,               \* history: number of completed registrations
    sync_kind,          \* sync session: "idle", "loopback", "initiate", "accept"
    sync_topic,         \* topic_query given to initiate
    i_pc,               \* initiator: position in DummyProtocol::initiate
    a_pc,               \* acceptor: position in DummyProtocol::accept
    i_rx,               \* frames the initiator has yet to read
    a_rx,               \* frames the acceptor has yet to read
    i_end,              \* the initiator's incoming stream ends after i_rx
    a_end,              \* the acceptor's incoming stream ends after a_rx
    broken,             \* the peer reset the connection: writes fail
    sent,               \* history: frames the remote peer wrote
    i_log,              \* history: what the initiator did, in order
    a_log,              \* history: what the acceptor did, in order
    c_pc,               \* codec run: "idle", "start", "encoded", "decoded"
    c_in,               \* the pair given to the codec
    c_bytes,            \* its encoding
    c_out               \* the decoding of c_bytes

nodevars == <<channel, lock, app_rx, topic_rx, system_events_rx, topic_tx, closed,
              mux_pc, held, pub_pc, pub_call, calls, app_sent,
              emitted, taken, delivered, failed_on, nreg>>

syncvars == <<sync_kind, sync_topic, i_pc, a_pc, i_rx, a_rx, i_end, a_end,
              broken, sent, i_log, a_log>>

codecvars == <<c_pc, c_in, c_bytes, c_out>>

vars == <<nodevars, syncvars, codecvars>>

\* An event id: its source and its number within the source.
NoId == <<"none", 0>>

\* Inputs the environment has made so far.
Inputs ==
    Len(calls) + emitted["system"] + emitted["topic"] + nreg + Cardinality(closed)

NoEvent == [id |-> NoId, src |-> "none", body |-> <<>>, epoch |-> 0]

\* Nobody holds the Mutex.  A task at state.lock().await proceeds once the
\* Mutex is free; which waiting task it is handed to is left open.
Free == "free"

NodeInit ==
    /\ channel = None
    /\ lock = Free
    /\ app_rx = <<>>
    /\ topic_rx = <<>>
    /\ system_events_rx = <<>>
    /\ topic_tx = <<>>
    /\ closed = {}
    /\ mux_pc = "select"
    /\ held = NoEvent
    /\ pub_pc = [p \in Publishers |-> "idle"]
    /\ pub_call = [p \in Publishers |-> 0]
    /\ calls = <<>>
    /\ app_sent = <<>>
    /\ emitted = [src \in {"system", "topic"} |-> 0]
    /\ taken = {}
    /\ delivered = <<>>
    /\ failed_on = NoId
    /\ nreg = 0

SyncInit ==
    /\ sync_kind = "idle"
    /\ sync_topic = "-"
    /\ i_pc = "none"
    /\ a_pc = "none"
    /\ i_rx = <<>>
    /\ a_rx = <<>>
    /\ i_end = FALSE
    /\ a_end = FALSE
    /\ broken = FALSE
    /\ sent = 0
    /\ i_log = <<>>
    /\ a_log = <<>>

CodecIdle ==
    /\ c_pc = "idle"
    /\ c_in = <<0, 0>>
    /\ c_bytes = <<>>
    /\ c_out = DecodeError

Init == NodeInit /\ SyncInit /\ CodecIdle

\* A buggy queue that puts a new event ahead of the ones waiting.
EnqueueFront(q, ev) == <<ev>> \o q

\* send() on a channel: the event goes behind the ones waiting in the queue.
Enqueue(q, ev) == Append(q, ev)

(***************************************************************************)
(* The init command (lib.rs:33-42).                                        *)
(***************************************************************************)
\* A buggy registration that refuses to replace a channel already set.
SetChannelKeepFirst(old, new) == IF old = None THEN new ELSE old

\* state.channel = Some(channel)
SetChannel(old, new) == new

\* The frontend invokes init with a fresh channel: the call takes the lock,
\* stores the channel, returns and drops the guard, with no await in between.
InitCall(c) ==
    /\ c = nreg + 1
    /\ Inputs < MaxInputs
    /\ lock = Free
    /\ channel' = SetChannel(channel, c)
    /\ nreg' = c
    /\ UNCHANGED <<syncvars, codecvars>>
    /\ UNCHANGED <<lock, app_rx, topic_rx, system_events_rx, topic_tx, closed,
                   mux_pc, held, pub_pc, pub_call, calls, app_sent, emitted,
                   taken, delivered, failed_on>>

(***************************************************************************)
(* The broadcast command (lib.rs:44-64).                                   *)
(***************************************************************************)
Message(p) == calls[pub_call[p]].message

\* The frontend invokes broadcast(timestamp, index) and the call gets the lock.
BroadcastCall(p, m) ==
    /\ pub_pc[p] = "idle"
    /\ Inputs < MaxInputs
    /\ lock = Free
    /\ calls' = Append(calls, [message |-> m, status |-> "running",
                                consumer |-> channel])
    /\ pub_call' = [pub_call EXCEPT ![p] = Len(calls) + 1]
    /\ pub_pc' = [pub_pc EXCEPT ![p] = "send_app"]
    /\ lock' = p
    /\ UNCHANGED <<syncvars, codecvars>>
    /\ UNCHANGED <<channel, app_rx, topic_rx, system_events_rx, topic_tx, closed,
                   mux_pc, held, app_sent, emitted, taken,
                   delivered, failed_on, nreg>>

\* state.app_tx.send(message).await with the lock held: completes when the
\* bounded queue has room.
BroadcastSendApp(p) ==
    /\ pub_pc[p] = "send_app"
    /\ lock = p
    /\ mux_pc # "failed"
    /\ Len(app_rx) < AppQueueCapacity
    /\ app_rx' = Enqueue(app_rx, [id |-> <<"app", pub_call[p]>>, src |-> "app",
                                  body |-> Message(p), epoch |-> nreg])
    /\ app_sent' = Append(app_sent, [call |-> pub_call[p], message |-> Message(p)])
    /\ pub_pc' = [pub_pc EXCEPT ![p] = "send_net"]
    /\ UNCHANGED <<syncvars, codecvars>>
    /\ UNCHANGED <<channel, lock, topic_rx, system_events_rx, topic_tx, closed,
                   mux_pc, held, pub_call, calls, emitted,
                   taken, delivered, failed_on, nreg>>

\* The receiver is gone (the forwarding task panicked): send returns Err and
\* .expect("send on app_tx channel") panics; unwinding drops the guard.
BroadcastSendAppClosed(p) ==
    /\ pub_pc[p] = "send_app"
    /\ lock = p
    /\ mux_pc = "failed"
    /\ calls' = [calls EXCEPT ![pub_call[p]].status = "panicked"]
    /\ pub_pc' = [pub_pc EXCEPT ![p] = "idle"]
    /\ pub_call' = [pub_call EXCEPT ![p] = 0]
    /\ lock' = Free
    /\ UNCHANGED <<syncvars, codecvars>>
    /\ UNCHANGED <<channel, app_rx, topic_rx, system_events_rx, topic_tx, closed,
                   mux_pc, held, app_sent, emitted, taken,
                   delivered, failed_on, nreg>>

\* ToNetwork::Message { bytes: serde_json::to_vec(&message) }
ToNetworkMessage(p) == [call |-> pub_call[p], bytes |-> Encode(Message(p))]

\* A buggy broadcast that returns without handing the message to the overlay.
BroadcastSendNetSkip(p) ==
    /\ pub_pc[p] = "send_net"
    /\ lock = p
    /\ calls' = [calls EXCEPT ![pub_call[p]].status = "returned"]
    /\ pub_pc' = [pub_pc EXCEPT ![p] = "idle"]
    /\ pub_call' = [pub_call EXCEPT ![p] = 0]
    /\ lock' = Free
    /\ UNCHANGED <<syncvars, codecvars>>
    /\ UNCHANGED <<channel, app_rx, topic_rx, system_events_rx, topic_tx, closed,
                   mux_pc, held, app_sent, emitted, taken,
                   delivered, failed_on, nreg>>

\* state.topic_tx.send(..).await (the overlay accepts it), then the call
\* returns Ok and drops the guard.
BroadcastSendNet(p) ==
    /\ pub_pc[p] = "send_net"
    /\ lock = p
    /\ topic_tx' = Append(topic_tx, ToNetworkMessage(p))
    /\ calls' = [calls EXCEPT ![pub_call[p]].status = "returned"]
    /\ pub_pc' = [pub_pc EXCEPT ![p] = "idle"]
    /\ pub_call' = [pub_call EXCEPT ![p] = 0]
    /\ lock' = Free
    /\ UNCHANGED <<syncvars, codecvars>>
    /\ UNCHANGED <<channel, app_rx, topic_rx, system_events_rx, closed, mux_pc,
                   held, app_sent, emitted, taken, delivered,
                   failed_on, nreg>>

(***************************************************************************)
(* The environment: the overlay and the frontend's channels.               *)
(***************************************************************************)
\* The overlay emits a system event.
SystemEmit(e) ==
    /\ mux_pc # "failed"
    /\ Inputs < MaxInputs
    /\ system_events_rx' = Enqueue(system_events_rx,
           [id |-> <<"system", emitted["system"] + 1>>, src |-> "system",
            body |-> e, epoch |-> nreg])
    /\ emitted' = [emitted EXCEPT !["system"] = @ + 1]
    /\ UNCHANGED <<syncvars, codecvars>>
    /\ UNCHANGED <<channel, lock, app_rx, topic_rx, topic_tx, closed, mux_pc,
                   held, pub_pc, pub_call, calls, app_sent,
                   taken, delivered, failed_on, nreg>>

\* The overlay delivers an event received on the topic.
GossipIn(m) ==
    /\ mux_pc # "failed"
    /\ Inputs < MaxInputs
    /\ topic_rx' = Enqueue(topic_rx,
           [id |-> <<"topic", emitted["topic"] + 1>>, src |-> "topic",
            body |-> m, epoch |-> nreg])
    /\ emitted' = [emitted EXCEPT !["topic"] = @ + 1]
    /\ UNCHANGED <<syncvars, codecvars>>
    /\ UNCHANGED <<channel, lock, app_rx, system_events_rx, topic_tx, closed,
                   mux_pc, held, pub_pc, pub_call, calls,
                   app_sent, taken, delivered, failed_on, nreg>>

\* The registered frontend channel stops accepting sends.
ConsumerClose ==
    /\ channel # None
    /\ channel \notin closed
    /\ Inputs < MaxInputs
    /\ closed' = closed \cup {channel}
    /\ UNCHANGED <<syncvars, codecvars>>
    /\ UNCHANGED <<channel, lock, app_rx, topic_rx, system_events_rx, topic_tx,
                   mux_pc, held, pub_pc, pub_call, calls,
                   app_sent, emitted, taken, delivered, failed_on, nreg>>

(***************************************************************************)
(* The forwarding loop of forward_to_app_layer (lib.rs:127-161).           *)
(***************************************************************************)
\* A buggy receive that leaves the event in the queue.
DequeuePeek(q) == q

\* recv() removes the oldest event of the queue.
Dequeue(q) == Tail(q)

\* A select! branch completed with `ev`; its handler starts with
\* state.lock().await.
Take(ev) ==
    /\ mux_pc = "select"
    /\ held' = ev
    /\ taken' = taken \cup {ev.id}
    /\ mux_pc' = "forward"

MuxRecvSystem ==
    /\ Len(system_events_rx) > 0
    /\ Take(Head(system_events_rx))
    /\ system_events_rx' = Dequeue(system_events_rx)
    /\ UNCHANGED <<syncvars, codecvars>>
    /\ UNCHANGED <<channel, lock, app_rx, topic_rx, topic_tx, closed, pub_pc, pub_call,
                   calls, app_sent, emitted, delivered,
                   failed_on, nreg>>

MuxRecvTopic ==
    /\ Len(topic_rx) > 0
    /\ Take(Head(topic_rx))
    /\ topic_rx' = Dequeue(topic_rx)
    /\ UNCHANGED <<syncvars, codecvars>>
    /\ UNCHANGED <<channel, lock, app_rx, system_events_rx, topic_tx, closed, pub_pc,
                   pub_call, calls, app_sent, emitted, delivered,
                   failed_on, nreg>>

MuxRecvApp ==
    /\ Len(app_rx) > 0
    /\ Take(Head(app_rx))
    /\ app_rx' = Dequeue(app_rx)
    /\ UNCHANGED <<syncvars, codecvars>>
    /\ UNCHANGED <<channel, lock, topic_rx, system_events_rx, topic_tx, closed, pub_pc,
                   pub_call, calls, app_sent, emitted, delivered,
                   failed_on, nreg>>

SamplePlayed(m) == [type |-> "SamplePlayed", timestamp |-> m[1], index |-> m[2]]

\* impl Serialize for SystemEvent: the variant's name under "type", then the
\* fields of the variant under their own names.
SerializeSystemEvent(e) ==
    CASE e.kind = "GossipJoined" ->
             [type |-> "GossipJoined", topic_id |-> e.topic_id, peers |-> e.peers]
      [] e.kind = "GossipLeft" ->
             [type |-> "GossipLeft", topic_id |-> e.topic_id]
      [] e.kind = "GossipNeighborUp" ->
             [type |-> "GossipNeighborUp", topic_id |-> e.topic_id, peer |-> e.peer]
      [] e.kind = "GossipNeighborDown" ->
             [type |-> "GossipNeighborDown", topic_id |-> e.topic_id, peer |-> e.peer]
      [] e.kind = "PeerDiscovered" ->
             [type |-> "PeerDiscovered", peer |-> e.peer]
      [] e.kind = "SyncStarted" ->
             [type |-> "SyncStarted", topic |-> e.topic, peer |-> e.peer]
      [] e.kind = "SyncDone" ->
             [type |-> "SyncDone", topic |-> e.topic, peer |-> e.peer]
      [] e.kind = "SyncFailed" ->
             [type |-> "SyncFailed", topic |-> e.topic, peer |-> e.peer]

\* ChannelEvent::SystemEvent(SystemEvent(event)) as the channel serializes it.
SystemEventOf(e) == [type |-> "SystemEvent", data |-> SerializeSystemEvent(e)]

\* A panic in the handler ends the task: its receivers are dropped with what
\* they buffer, and unwinding drops the guard.
Panic ==
    /\ mux_pc' = "failed"
    /\ failed_on' = held.id
    /\ app_rx' = <<>>
    /\ topic_rx' = <<>>
    /\ system_events_rx' = <<>>
    /\ UNCHANGED delivered

\* if let Some(channel) = &lock.channel { channel.send(ev).expect(..) }
Forward(ev) ==
    IF channel = None
    THEN /\ mux_pc' = "select"
         /\ UNCHANGED <<delivered, failed_on, app_rx, topic_rx, system_events_rx>>
    ELSE IF channel \in closed
    THEN Panic
    ELSE /\ delivered' = Append(delivered,
                [to |-> channel, id |-> held.id, src |-> held.src,
                 epoch |-> held.epoch, latest |-> nreg, body |-> held.body,
                 event |-> ev])
         /\ mux_pc' = "select"
         /\ UNCHANGED <<failed_on, app_rx, topic_rx, system_events_rx>>

\* The handler runs once the loop gets the lock; it has no await after that,
\* and the guard drops at its end.
Handle(src) ==
    /\ mux_pc = "forward"
    /\ held.src = src
    /\ lock = Free
    /\ held' = NoEvent
    /\ UNCHANGED <<syncvars, codecvars>>
    /\ UNCHANGED <<channel, lock, topic_tx, closed, pub_pc, pub_call,
                   calls, app_sent, emitted, taken, nreg>>

MuxForwardSystem ==
    /\ Handle("system")
    /\ Forward(SystemEventOf(held.body))

\* A buggy handler that drops a payload it cannot decode and goes on.
MuxForwardTopicDropBad ==
    /\ Handle("topic")
    /\ IF held.body.kind = "SyncMessage"
       THEN Panic
       ELSE IF ~Decode(held.body.bytes).ok
       THEN /\ mux_pc' = "select"
            /\ UNCHANGED <<delivered, failed_on, app_rx, topic_rx, system_events_rx>>
       ELSE Forward(SamplePlayed(Decode(held.body.bytes).val))

\* A SyncMessage hits todo!(); a payload that does not decode hits
\* .expect("decode message bytes").
MuxForwardTopic ==
    /\ Handle("topic")
    /\ IF held.body.kind = "SyncMessage"
       THEN Panic
       ELSE IF ~Decode(held.body.bytes).ok
       THEN Panic
       ELSE Forward(SamplePlayed(Decode(held.body.bytes).val))

MuxForwardApp ==
    /\ Handle("app")
    /\ Forward(SamplePlayed(held.body))

Mux ==
    \/ MuxRecvSystem
    \/ MuxRecvTopic
    \/ MuxRecvApp
    \/ MuxForwardSystem
    \/ MuxForwardTopic
    \/ MuxForwardApp

Next ==
    \/ \E c \in Consumers : InitCall(c)
    \/ \E p \in Publishers, m \in PubArgs : BroadcastCall(p, m)
    \/ \E p \in Publishers : BroadcastSendApp(p)
    \/ \E p \in Publishers : BroadcastSendAppClosed(p)
    \/ \E p \in Publishers : BroadcastSendNet(p)
    \/ \E e \in SystemEvents : SystemEmit(e)
    \/ \E m \in FromNetwork : GossipIn(m)
    \/ ConsumerClose
    \/ Mux

Spec == Init /\ [][Next]_vars

(***************************************************************************)
(* Runs in which the overlay delivers well-formed gossip only and the      *)
(* frontend channel stays open, with the tasks of the node scheduled       *)
(* fairly by the runtime.                                                  *)
(***************************************************************************)
ReliableNext ==
    \/ \E c \in Consumers : InitCall(c)
    \/ \E p \in Publishers, m \in PubArgs : BroadcastCall(p, m)
    \/ \E p \in Publishers : BroadcastSendApp(p)
    \/ \E p \in Publishers : BroadcastSendNet(p)
    \/ \E e \in SystemEvents : SystemEmit(e)
    \/ \E m \in GossipMessages : GossipIn(m)
    \/ Mux

FairSpec ==
    /\ Init
    /\ [][ReliableNext]_vars
    /\ WF_vars(Mux)
    /\ \A p \in Publishers : WF_vars(BroadcastSendApp(p) \/ BroadcastSendNet(p))

\* The same runs with the choice of select! among the branches that are ready
\* fair to each branch: a branch that is ready again and again is taken.
SelectFairSpec ==
    /\ Init
    /\ [][ReliableNext]_vars
    /\ SF_vars(MuxRecvSystem)
    /\ SF_vars(MuxRecvTopic)
    /\ SF_vars(MuxRecvApp)
    /\ WF_vars(MuxForwardSystem \/ MuxForwardTopic \/ MuxForwardApp)
    /\ \A p \in Publishers : WF_vars(BroadcastSendApp(p) \/ BroadcastSendNet(p))

(***************************************************************************)
(* DummyProtocol (sync.rs).  A session runs one initiator and one acceptor *)
(* of this node back to back ("loopback"), or one role of this node        *)
(* against a remote peer that writes what it likes.                        *)
(***************************************************************************)
HandshakeSuccess(t) == [op |-> "signal", type |-> "HandshakeSuccess", topic |-> t]

SendOp(f) == [op |-> "send", type |-> f.type, topic |-> f.topic]

RecvOp(f) == [op |-> "recv", type |-> f.type, topic |-> f.topic]

ReturnOp(r) == [op |-> "return", type |-> r, topic |-> "-"]

Ended(pc) == pc \in {"ok", "err", "panic"}

\* The overlay schedules a session.
SyncStart(kind, t) ==
    /\ sync_kind = "idle"
    /\ sync_kind' = kind
    /\ sync_topic' = (IF kind = "accept" THEN "-" ELSE t)
    /\ i_pc' = (IF kind \in {"loopback", "initiate"} THEN "send_query" ELSE "none")
    /\ a_pc' = (IF kind \in {"loopback", "accept"} THEN "read" ELSE "none")
    /\ UNCHANGED <<i_rx, a_rx, i_end, a_end, broken, sent, i_log, a_log>>
    /\ UNCHANGED <<nodevars, codecvars>>

\* The remote peer writes a frame to the role of this node.
PeerSend(f) ==
    /\ sync_kind \in {"initiate", "accept"}
    /\ sent < MaxFrames
    /\ ~broken
    /\ sent' = sent + 1
    /\ IF sync_kind = "initiate"
       THEN ~i_end /\ i_rx' = Append(i_rx, f) /\ UNCHANGED a_rx
       ELSE ~a_end /\ a_rx' = Append(a_rx, f) /\ UNCHANGED i_rx
    /\ UNCHANGED <<sync_kind, sync_topic, i_pc, a_pc, i_end, a_end, broken,
                   i_log, a_log>>
    /\ UNCHANGED <<nodevars, codecvars>>

\* The remote peer finishes its stream: the role reads what is buffered, then
\* the end of the stream.
PeerClose ==
    /\ sync_kind \in {"initiate", "accept"}
    /\ ~broken
    /\ IF sync_kind = "initiate"
       THEN ~i_end /\ i_end' = TRUE /\ UNCHANGED a_end
       ELSE ~a_end /\ a_end' = TRUE /\ UNCHANGED i_end
    /\ UNCHANGED <<sync_kind, sync_topic, i_pc, a_pc, i_rx, a_rx, broken, sent,
                   i_log, a_log>>
    /\ UNCHANGED <<nodevars, codecvars>>

\* The remote peer resets the connection: from now on writes to it fail.
PeerReset ==
    /\ sync_kind \in {"initiate", "accept"}
    /\ ~broken
    /\ broken' = TRUE
    /\ UNCHANGED <<sync_kind, sync_topic, i_pc, a_pc, i_rx, a_rx, i_end, a_end,
                   sent, i_log, a_log>>
    /\ UNCHANGED <<nodevars, codecvars>>

\* The initiator returns `r`; in a loopback session the acceptor's incoming
\* stream ends behind what was written.
InitiateReturn(r) ==
    /\ i_pc' = r
    /\ a_end' = (a_end \/ sync_kind = "loopback")

\* The initiator writes frame `f` and moves to `next`; a failed write returns
\* the error (`?`).
InitiateSend(f, next) ==
    /\ UNCHANGED <<sync_kind, sync_topic, a_pc, i_rx, i_end, broken, sent, a_log>>
    /\ UNCHANGED <<nodevars, codecvars>>
    /\ IF broken
       THEN /\ InitiateReturn("err")
            /\ i_log' = Append(i_log, ReturnOp("err"))
            /\ UNCHANGED a_rx
       ELSE /\ i_pc' = next
            /\ i_log' = Append(i_log, SendOp(f))
            /\ a_rx' = (IF sync_kind = "loopback" THEN Append(a_rx, f) ELSE a_rx)
            /\ UNCHANGED a_end

\* A buggy initiator that starts to read right after its TopicQuery.
InitiateSendQueryThenRead ==
    /\ i_pc = "send_query"
    /\ InitiateSend(TopicQuery(sync_topic), "read")

\* sink.send(SyncMessage::TopicQuery(topic_query.clone())).await?
InitiateSendQuery ==
    /\ i_pc = "send_query"
    /\ InitiateSend(TopicQuery(sync_topic), "sleep")

\* sleep(Duration::from_secs(3)).await
InitiateSleep ==
    /\ i_pc = "sleep"
    /\ i_pc' = "send_done"
    /\ UNCHANGED <<sync_kind, sync_topic, a_pc, i_rx, a_rx, i_end, a_end, broken,
                   sent, i_log, a_log>>
    /\ UNCHANGED <<nodevars, codecvars>>

\* sink.send(SyncMessage::Done).await?
InitiateSendDone ==
    /\ i_pc = "send_done"
    /\ InitiateSend(Done, "signal")

\* app_tx.send(FromSync::HandshakeSuccess(topic_query)).await?
InitiateSignal ==
    /\ i_pc = "signal"
    /\ i_pc' = "read"
    /\ i_log' = Append(i_log, HandshakeSuccess(sync_topic))
    /\ UNCHANGED <<sync_kind, sync_topic, a_pc, i_rx, a_rx, i_end, a_end, broken,
                   sent, a_log>>
    /\ UNCHANGED <<nodevars, codecvars>>

\* What the initiator's read loop does with a frame: the position it moves to.
InitiateOnFrame(f) ==
    IF f.type = "Malformed" THEN "err"
    ELSE IF f.type = "TopicQuery" THEN "panic"
    ELSE "flush"

\* while let Some(result) = stream.next().await { .. }: one frame, or the end
\* of the stream, which leaves the loop as Done does.
InitiateRead ==
    /\ i_pc = "read"
    /\ UNCHANGED <<sync_kind, sync_topic, a_pc, a_rx, i_end, broken, sent, a_log>>
    /\ UNCHANGED <<nodevars, codecvars>>
    /\ IF Len(i_rx) > 0
       THEN /\ i_rx' = Tail(i_rx)
            /\ IF Ended(InitiateOnFrame(Head(i_rx)))
               THEN /\ InitiateReturn(InitiateOnFrame(Head(i_rx)))
                    /\ i_log' = i_log \o <<RecvOp(Head(i_rx)),
                                           ReturnOp(InitiateOnFrame(Head(i_rx)))>>
               ELSE /\ i_pc' = InitiateOnFrame(Head(i_rx))
                    /\ i_log' = Append(i_log, RecvOp(Head(i_rx)))
                    /\ UNCHANGED a_end
       ELSE /\ i_end
            /\ i_pc' = "flush"
            /\ i_log' = Append(i_log, [op |-> "eof", type |-> "-", topic |-> "-"])
            /\ UNCHANGED <<i_rx, a_end>>

\* sink.flush().await?; app_tx.flush().await?; Ok(())
InitiateFlush ==
    /\ i_pc = "flush"
    /\ InitiateReturn(IF broken THEN "err" ELSE "ok")
    /\ i_log' = Append(i_log, ReturnOp(IF broken THEN "err" ELSE "ok"))
    /\ UNCHANGED <<sync_kind, sync_topic, a_pc, i_rx, a_rx, i_end, broken, sent,
                   a_log>>
    /\ UNCHANGED <<nodevars, codecvars>>

\* The acceptor returns `r`; in a loopback session the initiator's incoming
\* stream ends behind what was written.
AcceptReturn(r) ==
    /\ a_pc' = r
    /\ i_end' = (i_end \/ sync_kind = "loopback")

\* An acceptor that treats every TopicQuery as a protocol error.
AcceptOnFrameNoQuery(f, signalled) ==
    IF f.type = "Done" THEN "send_done" ELSE "err"

\* What the acceptor's read loop does with a frame: the position it moves to
\* (`signalled`: it has signalled handshake success before).
AcceptOnFrame(f, signalled) ==
    IF f.type = "Malformed" THEN "err"
    ELSE IF f.type = "TopicQuery" THEN "read"
    ELSE "send_done"

Signalled(log) == \E i \in 1..Len(log) : log[i].op = "signal"

\* while let Some(result) = stream.next().await { .. }: a TopicQuery is
\* answered with HandshakeSuccess; Done, or the end of the stream, leaves the
\* loop.
AcceptRead ==
    /\ a_pc = "read"
    /\ UNCHANGED <<sync_kind, sync_topic, i_pc, i_rx, a_end, broken, sent, i_log>>
    /\ UNCHANGED <<nodevars, codecvars>>
    /\ IF Len(a_rx) > 0
       THEN LET f == Head(a_rx)
                next == AcceptOnFrame(f, Signalled(a_log))
            IN  /\ a_rx' = Tail(a_rx)
                /\ IF Ended(next)
                   THEN /\ AcceptReturn(next)
                        /\ a_log' = a_log \o <<RecvOp(f), ReturnOp(next)>>
                   ELSE /\ a_pc' = next
                        /\ UNCHANGED i_end
                        /\ a_log' = IF next = "read"
                                    THEN a_log \o <<RecvOp(f), HandshakeSuccess(f.topic)>>
                                    ELSE Append(a_log, RecvOp(f))
       ELSE /\ a_end
            /\ a_pc' = "send_done"
            /\ a_log' = Append(a_log, [op |-> "eof", type |-> "-", topic |-> "-"])
            /\ UNCHANGED <<a_rx, i_end>>

\* sink.send(SyncMessage::Done).await?
AcceptSendDone ==
    /\ a_pc = "send_done"
    /\ UNCHANGED <<sync_kind, sync_topic, i_pc, a_rx, a_end, broken, sent, i_log>>
    /\ UNCHANGED <<nodevars, codecvars>>
    /\ IF broken
       THEN /\ AcceptReturn("err")
            /\ a_log' = Append(a_log, ReturnOp("err"))
            /\ UNCHANGED i_rx
       ELSE /\ a_pc' = "flush"
            /\ a_log' = Append(a_log, SendOp(Done))
            /\ i_rx' = (IF sync_kind = "loopback" THEN Append(i_rx, Done) ELSE i_rx)
            /\ UNCHANGED i_end

\* sink.flush().await?; app_tx.flush().await?; Ok(())
AcceptFlush ==
    /\ a_pc = "flush"
    /\ AcceptReturn(IF broken THEN "err" ELSE "ok")
    /\ a_log' = Append(a_log, ReturnOp(IF broken THEN "err" ELSE "ok"))
    /\ UNCHANGED <<sync_kind, sync_topic, i_pc, i_rx, a_rx, a_end, broken, sent,
                   i_log>>
    /\ UNCHANGED <<nodevars, codecvars>>

Initiate ==
    \/ InitiateSendQuery
    \/ InitiateSleep
    \/ InitiateSendDone
    \/ InitiateSignal
    \/ InitiateRead
    \/ InitiateFlush

Accept ==
    \/ AcceptRead
    \/ AcceptSendDone
    \/ AcceptFlush

SyncNext ==
    \/ \E k \in {"loopback", "initiate", "accept"}, t \in Topics : SyncStart(k, t)
    \/ \E f \in Frames : PeerSend(f)
    \/ PeerClose
    \/ PeerReset
    \/ Initiate
    \/ Accept

SyncSpec == Init /\ [][SyncNext]_vars

\* The runtime schedules both roles fairly.
SyncFairSpec == SyncSpec /\ WF_vars(Initiate) /\ WF_vars(Accept)

(***************************************************************************)
(* Runs of the codec: a pair is encoded, then the bytes are decoded.       *)
(***************************************************************************)
CodecInit ==
    /\ NodeInit
    /\ SyncInit
    /\ c_pc = "start"
    /\ c_in \in CodecTimestamps \X CodecIndexes
    /\ c_bytes = <<>>
    /\ c_out = DecodeError

CodecEncode ==
    /\ c_pc = "start"
    /\ c_bytes' = Encode(c_in)
    /\ c_pc' = "encoded"
    /\ UNCHANGED <<c_in, c_out>>
    /\ UNCHANGED <<nodevars, syncvars>>

CodecDecode ==
    /\ c_pc = "encoded"
    /\ c_out' = Decode(c_bytes)
    /\ c_pc' = "decoded"
    /\ UNCHANGED <<c_in, c_bytes>>
    /\ UNCHANGED <<nodevars, syncvars>>

CodecNext == CodecEncode \/ CodecDecode

CodecSpec == CodecInit /\ [][CodecNext]_vars

(***************************************************************************)
(* Properties of the forwarding loop and the commands.                     *)
(***************************************************************************)
Deliveries == 1..Len(delivered)

DeliveredCount(id) == Cardinality({i \in Deliveries : delivered[i].id = id})

\* C1: every forward goes to the consumer that is the most recently
\* registered one at the moment of the send (so nothing is sent to c(k) once
\* c(k+1) is registered), and the one active consumer is the latest one.
OnlyLatestConsumerReceives ==
    /\ \A i \in Deliveries : delivered[i].to = delivered[i].latest
    /\ channel = (IF nreg = 0 THEN None ELSE nreg)

\* Events were forwarded to consumer 1 and, after the swap, to consumer 2.
SwapWitness ==
    \E i, j \in Deliveries : i < j /\ delivered[i].to = 1 /\ delivered[j].to = 2

\* C2 (as claimed): an event emitted before consumer c2 (any consumer after the
\* first) registered is never delivered to c2.
NoLateDelivery ==
    \A i \in Deliveries :
        delivered[i].to >= 2 => delivered[i].epoch >= delivered[i].to

\* C2 (amended): an event is forwarded at most once, so an event already
\* forwarded before c2 registered is not delivered again on the new channel.
NoReplay ==
    \A i, j \in Deliveries : i # j => delivered[i].id # delivered[j].id

\* One event was forwarded to consumer 1; consumer 2 then registered and was
\* forwarded an event that had entered its source before the swap.
LateDeliveryWitness ==
    \E i, j \in Deliveries :
        /\ i < j
        /\ delivered[i].to = 1
        /\ delivered[j].to = 2
        /\ delivered[j].epoch < 2

\* C3 (as claimed): no state has a broadcast call holding the lock while it
\* waits for room in the local-origin queue and the loop, the only task that
\* makes room, waiting for the lock.
NoLockQueueDeadlock ==
    ~ \E p \in Publishers :
        /\ lock = p
        /\ pub_pc[p] = "send_app"
        /\ Len(app_rx) >= AppQueueCapacity
        /\ mux_pc = "forward"

\* C4 (as claimed): every event the loop took is being handled, was forwarded
\* to a consumer, or made the loop fail.
NoSilentDrop ==
    \A id \in taken :
        id = held.id \/ id = failed_on \/ DeliveredCount(id) >= 1

\* C5 (as claimed): the loop takes no event before the first registration.
BlocksUntilFirstRegistration == nreg = 0 => taken = {}

Returned == {c \in 1..Len(calls) : calls[c].status = "returned"}

\* C6: a broadcast call that returned sent exactly one message on app_tx and
\* exactly one on topic_tx, and both carry the pair given to the call.
PublishEnqueuesBothOnce ==
    \A c \in Returned :
        /\ Cardinality({i \in 1..Len(app_sent) : app_sent[i].call = c}) = 1
        /\ Cardinality({i \in 1..Len(topic_tx) : topic_tx[i].call = c}) = 1
        /\ \A i \in 1..Len(app_sent) :
               app_sent[i].call = c => app_sent[i].message = calls[c].message
        /\ \A i \in 1..Len(topic_tx) :
               topic_tx[i].call = c =>
                   /\ Decode(topic_tx[i].bytes).ok
                   /\ Decode(topic_tx[i].bytes).val = calls[c].message

\* Two calls with different arguments have returned.
TwoPublishedWitness ==
    \E c, d \in Returned : calls[c].message # calls[d].message

\* C7 (as claimed): a message published with a consumer registered is
\* delivered to that consumer exactly once, eventually, unless the consumer is
\* replaced first.
PublishedDeliveredOnce ==
    \A c \in 1..MaxInputs :
        /\ [](DeliveredCount(<<"app", c>>) <= 1)
        /\ (c \in Returned /\ calls[c].consumer # None)
               ~> /\ c \in Returned
                  /\ \/ channel # calls[c].consumer
                     \/ \E i \in Deliveries :
                            /\ delivered[i].id = <<"app", c>>
                            /\ delivered[i].to = calls[c].consumer
                            /\ delivered[i].event = SamplePlayed(calls[c].message)

\* The consumer that was registered when the system event numbered n was
\* emitted, while the event is in its source or taken and not yet handled;
\* None otherwise.
PendingFor(n) ==
    IF held.id = <<"system", n>> THEN held.epoch
    ELSE IF \E i \in 1..Len(system_events_rx) : system_events_rx[i].id = <<"system", n>>
    THEN LET i == CHOOSE i \in 1..Len(system_events_rx) :
                      system_events_rx[i].id = <<"system", n>>
         IN  system_events_rx[i].epoch
    ELSE None

\* What the consumer gets for a system event: the SystemEvent wrapper around
\* the variant's name and the fields the overlay gave it.
Relayed(d) ==
    /\ d.event.type = "SystemEvent"
    /\ d.event.data.type = d.body.kind
    /\ (d.body.kind = "GossipJoined" =>
            /\ d.event.data.topic_id = d.body.topic_id
            /\ d.event.data.peers = d.body.peers)
    /\ (d.body.kind = "SyncFailed" =>
            /\ d.event.data.topic = d.body.topic
            /\ d.event.data.peer = d.body.peer)

\* C11 (as claimed): every system event forwarded to a consumer arrives as a
\* SystemEvent with its kind and payload unchanged, and a system event emitted
\* while consumer c is registered is eventually forwarded to c, unless c is
\* replaced first.
SystemEventsRelayed ==
    /\ [](\A i \in Deliveries : delivered[i].src = "system" => Relayed(delivered[i]))
    /\ \A n \in 1..MaxInputs :
           (PendingFor(n) # None)
               ~> \/ PendingFor(n) # None /\ channel # PendingFor(n)
                  \/ \E i \in Deliveries :
                         /\ delivered[i].id = <<"system", n>>
                         /\ delivered[i].to = delivered[i].epoch
                         /\ Relayed(delivered[i])

\* C12 (as claimed): no task holds the AppContext lock while it is suspended
\* on a channel operation.  The loop's handlers and the init command take and
\* drop the lock without an await in between; a broadcast call is suspended
\* at app_tx.send while the local-origin queue is full.
LockNeverHeldAcrossAwait ==
    \A p \in Publishers :
        lock = p => ~(pub_pc[p] = "send_app" /\ Len(app_rx) >= AppQueueCapacity)

SourceQueue(src) ==
    CASE src = "system" -> system_events_rx
      [] src = "topic" -> topic_rx
      [] src = "app" -> app_rx

\* Every event that entered the source has been taken by the loop and its
\* handler has run to the end.
Drained(src) == Len(SourceQueue(src)) = 0 /\ held.src # src

\* C14 (as claimed): while the loop runs no source is left waiting: an event
\* ready in a source is eventually taken and handled whatever the other
\* sources hold, so each source (which gets finitely many events in a run) is
\* drained again and again.
NoSourceBlocksAnother ==
    \A src \in {"system", "topic", "app"} :
        []<>(Drained(src) \/ mux_pc = "failed")

\* The loop holds an event whose handler meets a fatal error: a gossip
\* payload that does not decode, or a registered consumer whose channel is
\* closed.
FatalInHand ==
    /\ mux_pc = "forward"
    /\ \/ /\ held.src = "topic"
          /\ held.body.kind = "GossipMessage"
          /\ ~Decode(held.body.bytes).ok
       \/ channel # None /\ channel \in closed

\* C15: a handler that meets a fatal error ends the loop without forwarding
\* the event it holds; the event the loop failed on is never forwarded; and
\* once the loop has ended it stays ended and nothing more is forwarded.
FatalErrorsAbort ==
    /\ [](mux_pc = "failed" => DeliveredCount(failed_on) = 0)
    /\ [][/\ (FatalInHand /\ held' # held)
              => (mux_pc' = "failed" /\ delivered' = delivered)
          /\ mux_pc = "failed"
              => (mux_pc' = "failed" /\ delivered' = delivered)]_vars

\* The loop forwarded an event, then failed on a local or system event because
\* the consumer's channel was closed, leaving the later event unforwarded.
AbortedOnClosedWitness ==
    /\ mux_pc = "failed"
    /\ channel \in closed
    /\ failed_on[1] \in {"system", "app"}
    /\ Len(delivered) >= 1
    /\ DeliveredCount(failed_on) = 0

(***************************************************************************)
(* Properties of the sync protocol.                                        *)
(***************************************************************************)
SignalCount(log) == Cardinality({i \in 1..Len(log) : log[i].op = "signal"})

\* C8: an initiator and an acceptor connected back to back both terminate
\* with Ok, and the initiator signals handshake success exactly once.
LoopbackHandshakeSucceeds ==
    /\ (sync_kind = "loopback") ~> (i_pc = "ok" /\ a_pc = "ok")
    /\ [](sync_kind = "loopback" =>
             /\ i_pc \notin {"err", "panic"}
             /\ a_pc \notin {"err", "panic"}
             /\ SignalCount(i_log) <= 1
             /\ (i_pc = "ok" => SignalCount(i_log) = 1))

\* Both roles of a loopback session returned Ok.
LoopbackDoneWitness ==
    /\ sync_kind = "loopback"
    /\ i_pc = "ok"
    /\ a_pc = "ok"
    /\ SignalCount(i_log) = 1

\* C9 (as claimed): the acceptor signals handshake success at most once, and
\* a TopicQuery it reads after having signalled makes it return an error.
SecondQueryRejected ==
    /\ SignalCount(a_log) <= 1
    /\ \A i \in 1..Len(a_log) :
           (/\ a_log[i].op = "recv"
            /\ a_log[i].type = "TopicQuery"
            /\ \E j \in 1..(i - 1) : a_log[j].op = "signal")
           => (i < Len(a_log) /\ a_log[i + 1] = ReturnOp("err"))

InitiatorQueryIsError ==
    /\ i_pc # "panic"
    /\ \A i \in 1..Len(i_log) :
           (i_log[i].op = "recv" /\ i_log[i].type = "TopicQuery")
           => (i < Len(i_log) /\ i_log[i + 1] = ReturnOp("err"))

\* C18 (as claimed): the acceptor sends at most one Done, and only after it
\* has read a Done from its incoming stream.
AcceptorDoneAnswersDone ==
    /\ Cardinality({i \in 1..Len(a_log) : a_log[i] = SendOp(Done)}) <= 1
    /\ \A i \in 1..Len(a_log) :
           a_log[i] = SendOp(Done)
           => \E j \in 1..(i - 1) : a_log[j] = RecvOp(Done)

\* C19 (as claimed): accept returns Ok only after it signalled handshake
\* success, and initiate returns Ok only after it read a Done.
OkOnlyAfterHandshake ==
    /\ a_pc = "ok" => SignalCount(a_log) >= 1
    /\ i_pc = "ok" => \E j \in 1..Len(i_log) : i_log[j] = RecvOp(Done)

(***************************************************************************)
(* Properties of the codec.                                                *)
(***************************************************************************)
\* C10: decoding the encoding of a pair yields the pair.
CodecRoundTrip ==
    c_pc = "decoded" => (c_out.ok /\ c_out.val = c_in)

\* The largest pair of the set went through the codec.
RoundTripWitness ==
    /\ c_pc = "decoded"
    /\ c_in = <<2147483647, 65535>>
    /\ c_out.ok

====
